---------------------------- MODULE Spec2Model ----------------------------
(***************************************************************************)
(* Model of the anxiety-detection backend (src/python):                    *)
(*   feature_extractor.py  FeatureExtractor (normalize, classify, features,*)
(*                         baseline, rolling windows)                      *)
(*   model_loader.py       ModelLoader (load_models, verify_model, predict)*)
(*   anxiety_detector.py   AnxietyDetector (analyze_session,               *)
(*                         get_triggered_features, should_intervene) and   *)
(*                         PipeServer (run, handle_request)                *)
(*                                                                         *)
(* Texts are sequences of one-character strings.  Real numbers are         *)
(* fixed-point integers in thousandths (Milli); times are milliseconds.    *)
(***************************************************************************)
EXTENDS Integers, Sequences, FiniteSets, TLC

VARIABLES
    \* ---- PipeServer (anxiety_detector.py) ----
    detector,      \* self.detector: <<>> is None, <<d>> an AnxietyDetector
    running,       \* self.running
    conn,          \* position of run(): "waiting", "connected", "stopped"
    now,           \* the wall clock, in seconds (datetime.now())
    last,          \* the request handled last and the response written for it
    nreq,          \* number of requests handled so far (bounds the run)
    nticks,        \* number of clock steps taken so far (bounds the run)
    \* ---- observers (no program state) ----
    approvals,     \* the instants at which the current detector approved
    last_init,     \* how the latest initialize request ended: "none", "ok", "error"
    \* ---- pure-function harnesses ----
    pc,            \* position of the harness: "idle", "in", "once", "done"
    text,          \* input text of normalize / classify
    out1,          \* normalize(text)
    out2,          \* normalize(normalize(text))
    category,      \* classify_error(text)
    fvec,          \* input feature dict of get_triggered_features
    triggered,     \* result of get_triggered_features
    arg,           \* input of the other functions applied on their own
    res            \* their result

vars == <<detector, running, conn, now, last, nreq, nticks, approvals, last_init,
          pc, text, out1, out2, category, fvec, triggered, arg, res>>

serverVars == <<detector, running, conn, now, last, nreq, nticks, approvals, last_init>>
pureVars == <<pc, text, out1, out2, category, fvec, triggered, arg, res>>

(***************************************************************************)
(* Generic helpers                                                         *)
(***************************************************************************)

RECURSIVE Concat(_)
\* the concatenation of a sequence of sequences
Concat(ss) == IF ss = <<>> THEN <<>> ELSE Head(ss) \o Concat(Tail(ss))

RECURSIVE SeqsUpTo(_, _)
\* all sequences over S of length 0..n
SeqsUpTo(S, n) ==
    IF n = 0 THEN {<<>>}
    ELSE LET shorter == SeqsUpTo(S, n - 1)
         IN  shorter \cup {Append(s, x) : s \in {t \in shorter : Len(t) = n - 1}, x \in S}

(***************************************************************************)
(* Character classes of Python's re module, restricted to ASCII            *)
(***************************************************************************)
Digit == {"0", "1", "2", "3", "4", "5", "6", "7", "8", "9"}
LowerLetter == {"a", "b", "c", "d", "e", "f", "g", "h", "i", "j", "k", "l", "m",
                "n", "o", "p", "q", "r", "s", "t", "u", "v", "w", "x", "y", "z"}
UpperLetter == {"A", "B", "C", "D", "E", "F", "G", "H", "I", "J", "K", "L", "M",
                "N", "O", "P", "Q", "R", "S", "T", "U", "V", "W", "X", "Y", "Z"}
\* [0-9a-f]
HexLower == Digit \cup {"a", "b", "c", "d", "e", "f"}
\* [a-zA-Z]
Letter == LowerLetter \cup UpperLetter
\* \w, the class \b is defined by
WordChar == Letter \cup Digit \cup {"_"}
\* \s, and the separators of str.split()
Space == {" ", "\t", "\n", "\r", "\f"}

RECURSIVE Run(_, _, _)
\* length of the longest run of characters of class C starting at s[i]
Run(s, i, C) ==
    IF i > Len(s) \/ s[i] \notin C THEN 0 ELSE 1 + Run(s, i + 1, C)

\* the literal lit occurs in s at position i
LitAt(s, i, lit) ==
    /\ i >= 1
    /\ i + Len(lit) - 1 <= Len(s)
    /\ \A k \in 1..Len(lit) : s[i + k - 1] = lit[k]

RECURSIVE IndexFrom(_, _, _)
\* least j >= i with s[j] = c, or 0
IndexFrom(s, i, c) ==
    IF i > Len(s) THEN 0
    ELSE IF s[i] = c THEN i ELSE IndexFrom(s, i + 1, c)

(***************************************************************************)
(* FeatureExtractor.normalize_error_message (feature_extractor.py 29-37,   *)
(* 68-86).  Each rule is re.sub(pattern, replacement, text): leftmost,     *)
(* non-overlapping, greedy matches, each replaced by the placeholder.      *)
(***************************************************************************)
Chars_line == <<"l", "i", "n", "e">>
Chars_column == <<"c", "o", "l", "u", "m", "n">>

\* the replacement strings, in the order of normalization_patterns
Placeholder(rule) ==
    CASE rule = 1 -> <<"l", "i", "n", "e", "_", "n", "u", "m">>
      [] rule = 2 -> <<"c", "o", "l", "_", "n", "u", "m">>
      [] rule = 3 -> <<"p", "a", "t", "h">>
      [] rule = 4 -> <<"m", "e", "m", "o", "r", "y", "_", "a", "d", "d", "r">>
      [] rule = 5 -> <<"n", "u", "m", "b", "e", "r">>
      [] rule = 6 -> <<"s", "t", "r", "i", "n", "g", "_", "l", "i", "t", "e", "r", "a", "l">>
      [] rule = 7 -> <<"c", "h", "a", "r", "_", "l", "i", "t", "e", "r", "a", "l">>

\* <word>\s+\d+ at s[i]: the length of the match, 0 when there is none
MatchWordNumber(s, i, word) ==
    IF ~LitAt(s, i, word) THEN 0
    ELSE LET sp == Run(s, i + Len(word), Space)
             dg == Run(s, i + Len(word) + sp, Digit)
         IN  IF sp >= 1 /\ dg >= 1 THEN Len(word) + sp + dg ELSE 0

RECURSIVE PathSegments(_, _)
\* (?:[^\\]+\\)* from position p: the position after the last segment taken
PathSegments(s, p) ==
    LET q == IndexFrom(s, p, "\\")
    IN  IF q > p THEN PathSegments(s, q + 1) ELSE p

\* [a-zA-Z]:\\(?:[^\\]+\\)* at s[i]
MatchPath(s, i) ==
    IF i + 2 <= Len(s) /\ s[i] \in Letter /\ s[i + 1] = ":" /\ s[i + 2] = "\\"
    THEN PathSegments(s, i + 3) - i
    ELSE 0

\* 0x[0-9a-f]+ at s[i]
MatchHex(s, i) ==
    IF LitAt(s, i, <<"0", "x">>) /\ Run(s, i + 2, HexLower) >= 1
    THEN 2 + Run(s, i + 2, HexLower)
    ELSE 0

\* \b\d+\b at s[i]: a maximal digit run with no word character on either side
MatchNumber(s, i) ==
    LET dg == Run(s, i, Digit)
    IN  IF /\ dg >= 1
           /\ (i = 1 \/ s[i - 1] \notin WordChar)
           /\ (i + dg > Len(s) \/ s[i + dg] \notin WordChar)
        THEN dg ELSE 0

\* q[^q]*q at s[i], q a quote character
MatchQuoted(s, i, q) ==
    IF i <= Len(s) /\ s[i] = q /\ IndexFrom(s, i + 1, q) > 0
    THEN IndexFrom(s, i + 1, q) - i + 1
    ELSE 0

\* the length of the match of normalization rule `rule` at s[i], 0 for none
MatchLen(rule, s, i) ==
    CASE rule = 1 -> MatchWordNumber(s, i, Chars_line)
      [] rule = 2 -> MatchWordNumber(s, i, Chars_column)
      [] rule = 3 -> MatchPath(s, i)
      [] rule = 4 -> MatchHex(s, i)
      [] rule = 5 -> MatchNumber(s, i)
      [] rule = 6 -> MatchQuoted(s, i, "\"")
      [] rule = 7 -> MatchQuoted(s, i, "'")

RECURSIVE SubFrom(_, _, _)
\* re.sub of one rule, scanning s from position i
SubFrom(rule, s, i) ==
    IF i > Len(s) THEN <<>>
    ELSE LET m == MatchLen(rule, s, i)
         IN  IF m > 0 THEN Placeholder(rule) \o SubFrom(rule, s, i + m)
             ELSE <<s[i]>> \o SubFrom(rule, s, i + 1)

RECURSIVE ApplyRules(_, _)
\* rules `rule`..7 applied in order, each to the output of the one before
ApplyRules(rule, s) ==
    IF rule > 7 THEN s ELSE ApplyRules(rule + 1, SubFrom(rule, s, 1))

RECURSIVE CollapseFrom(_, _, _)
\* ' '.join(s.split()): words separated by single spaces, none at the ends
CollapseFrom(s, i, started) ==
    IF i > Len(s) THEN <<>>
    ELSE IF s[i] \in Space THEN CollapseFrom(s, i + Run(s, i, Space), started)
    ELSE LET w == Run(s, i, {c \in {s[k] : k \in 1..Len(s)} : c \notin Space})
         IN  (IF started THEN <<" ">> ELSE <<>>) \o SubSeq(s, i, i + w - 1)
                 \o CollapseFrom(s, i + w, TRUE)

normalize_error_message(s) == CollapseFrom(ApplyRules(1, s), 1, FALSE)

(***************************************************************************)
(* FeatureExtractor.classify_error (feature_extractor.py 40-57, 88-104).   *)
(* A pattern is its alternatives (a|b|c); an alternative is <<A>> for the   *)
(* literal A, or <<A, B>> for A.*B, where . matches no line break.          *)
(***************************************************************************)
UpperSeq == <<"A", "B", "C", "D", "E", "F", "G", "H", "I", "J", "K", "L", "M",
              "N", "O", "P", "Q", "R", "S", "T", "U", "V", "W", "X", "Y", "Z">>
LowerSeq == <<"a", "b", "c", "d", "e", "f", "g", "h", "i", "j", "k", "l", "m",
              "n", "o", "p", "q", "r", "s", "t", "u", "v", "w", "x", "y", "z">>

\* str.lower() of one character
LowerChar(c) ==
    IF c \in UpperLetter THEN LowerSeq[CHOOSE i \in 1..26 : UpperSeq[i] = c] ELSE c

\* str.lower()
Lower(s) == [i \in 1..Len(s) |-> LowerChar(s[i])]

\* self.error_patterns, in the order the dict is written (and iterated)
error_patterns == <<
    [name |-> "syntax_error", alts |-> <<
        <<<<"s", "y", "n", "t", "a", "x", " ", "e", "r", "r", "o", "r">>>>,
        <<<<"e", "x", "p", "e", "c", "t", "e", "d">>>>,
        <<<<"u", "n", "e", "x", "p", "e", "c", "t", "e", "d">>>>>>],
    [name |-> "missing_semicolon", alts |-> <<
        <<<<"e", "x", "p", "e", "c", "t", "e", "d">>, <<";">>>>,
        <<<<"m", "i", "s", "s", "i", "n", "g">>, <<";">>>>>>],
    [name |-> "undefined_reference", alts |-> <<
        <<<<"u", "n", "d", "e", "f", "i", "n", "e", "d", " ", "r", "e", "f", "e", "r", "e", "n", "c", "e">>>>,
        <<<<"u", "n", "r", "e", "s", "o", "l", "v", "e", "d", " ", "e", "x", "t", "e", "r", "n", "a", "l">>>>>>],
    [name |-> "missing_header", alts |-> <<
        <<<<"c", "a", "n", "n", "o", "t", " ", "f", "i", "n", "d">>>>,
        <<<<"n", "o", " ", "s", "u", "c", "h", " ", "f", "i", "l", "e">>>>,
        <<<<"i", "n", "c", "l", "u", "d", "e">>>>>>],
    [name |-> "segmentation_fault", alts |-> <<
        <<<<"s", "e", "g", "m", "e", "n", "t", "a", "t", "i", "o", "n", " ", "f", "a", "u", "l", "t">>>>,
        <<<<"a", "c", "c", "e", "s", "s", " ", "v", "i", "o", "l", "a", "t", "i", "o", "n">>>>>>],
    [name |-> "null_pointer", alts |-> <<
        <<<<"n", "u", "l", "l", " ", "p", "o", "i", "n", "t", "e", "r">>>>,
        <<<<"n", "u", "l", "l", "p", "t", "r">>>>,
        <<<<"N", "U", "L", "L">>>>>>],
    [name |-> "array_bounds", alts |-> <<
        <<<<"a", "r", "r", "a", "y", " ", "b", "o", "u", "n", "d", "s">>>>,
        <<<<"o", "u", "t", " ", "o", "f", " ", "b", "o", "u", "n", "d", "s">>>>,
        <<<<"i", "n", "d", "e", "x">>, <<"o", "u", "t", " ", "o", "f", " ", "r", "a", "n", "g", "e">>>>>>],
    [name |-> "uninitialized", alts |-> <<
        <<<<"u", "n", "i", "n", "i", "t", "i", "a", "l", "i", "z", "e", "d">>>>,
        <<<<"u", "s", "e", "d", " ", "w", "i", "t", "h", "o", "u", "t", " ", "b", "e", "i", "n", "g", " ", "i", "n", "i", "t", "i", "a", "l", "i", "z", "e", "d">>>>>>],
    [name |-> "memory_leak", alts |-> <<
        <<<<"m", "e", "m", "o", "r", "y", " ", "l", "e", "a", "k">>>>,
        <<<<"l", "e", "a", "k", "e", "d">>>>>>],
    [name |-> "buffer_overflow", alts |-> <<
        <<<<"b", "u", "f", "f", "e", "r", " ", "o", "v", "e", "r", "f", "l", "o", "w">>>>,
        <<<<"s", "t", "a", "c", "k", " ", "o", "v", "e", "r", "f", "l", "o", "w">>>>>>],
    [name |-> "type_mismatch", alts |-> <<
        <<<<"t", "y", "p", "e", " ", "m", "i", "s", "m", "a", "t", "c", "h">>>>,
        <<<<"c", "a", "n", "n", "o", "t", " ", "c", "o", "n", "v", "e", "r", "t">>>>,
        <<<<"i", "n", "c", "o", "m", "p", "a", "t", "i", "b", "l", "e", " ", "t", "y", "p", "e">>>>>>],
    [name |-> "no_matching_function", alts |-> <<
        <<<<"n", "o", " ", "m", "a", "t", "c", "h", "i", "n", "g", " ", "f", "u", "n", "c", "t", "i", "o", "n">>>>,
        <<<<"o", "v", "e", "r", "l", "o", "a", "d">>, <<"n", "o", "t", " ", "f", "o", "u", "n", "d">>>>>>],
    [name |-> "ambiguous", alts |-> <<
        <<<<"a", "m", "b", "i", "g", "u", "o", "u", "s">>>>,
        <<<<"m", "o", "r", "e", " ", "t", "h", "a", "n", " ", "o", "n", "e", " ", "i", "n", "s", "t", "a", "n", "c", "e">>>>>>],
    [name |-> "redefinition", alts |-> <<
        <<<<"r", "e", "d", "e", "f", "i", "n", "i", "t", "i", "o", "n">>>>,
        <<<<"m", "u", "l", "t", "i", "p", "l", "e", " ", "d", "e", "f", "i", "n", "i", "t", "i", "o", "n">>>>>>],
    [name |-> "undeclared", alts |-> <<
        <<<<"n", "o", "t", " ", "d", "e", "c", "l", "a", "r", "e", "d">>>>,
        <<<<"u", "n", "d", "e", "c", "l", "a", "r", "e", "d">>>>>>],
    [name |-> "incomplete_type", alts |-> <<
        <<<<"i", "n", "c", "o", "m", "p", "l", "e", "t", "e", " ", "t", "y", "p", "e">>>>,
        <<<<"f", "o", "r", "w", "a", "r", "d", " ", "d", "e", "c", "l", "a", "r", "a", "t", "i", "o", "n">>>>>>]
>>

\* re.I: the literal A matches at s[i] whatever the case of either
LitAtI(s, i, lit) ==
    /\ i + Len(lit) - 1 <= Len(s)
    /\ \A k \in 1..Len(lit) : LowerChar(s[i + k - 1]) = LowerChar(lit[k])

\* pattern.search(s) for one alternative
AltSearch(alt, s) ==
    IF Len(alt) = 1
    THEN \E i \in 1..Len(s) : LitAtI(s, i, alt[1])
    ELSE \E i \in 1..Len(s) :
            /\ LitAtI(s, i, alt[1])
            /\ \E j \in (i + Len(alt[1]))..Len(s) :
                  /\ LitAtI(s, j, alt[2])
                  /\ \A k \in (i + Len(alt[1]))..(j - 1) : s[k] # "\n"

\* pattern.search(s)
PatternSearch(pattern, s) ==
    \E a \in 1..Len(pattern.alts) : AltSearch(pattern.alts[a], s)

RECURSIVE ClassifyFrom_LastMatch(_, _)
\* a plausible slip: the loop does not return at the first match
ClassifyFrom_LastMatch(k, s) ==
    IF k > Len(error_patterns) THEN "unknown_error"
    ELSE LET rest == ClassifyFrom_LastMatch(k + 1, s)
         IN  IF rest # "unknown_error" THEN rest
             ELSE IF PatternSearch(error_patterns[k], s) THEN error_patterns[k].name
             ELSE "unknown_error"

RECURSIVE ClassifyFrom(_, _)
\* the loop of classify_error from table entry k on
ClassifyFrom(k, s) ==
    IF k > Len(error_patterns) THEN "unknown_error"
    ELSE IF PatternSearch(error_patterns[k], s) THEN error_patterns[k].name
    ELSE ClassifyFrom(k + 1, s)

classify_error(error_msg) == ClassifyFrom(1, Lower(error_msg))

(***************************************************************************)
(* Event model.  A timestamp as it arrives in the JSON request is          *)
(*   [k |-> "iso", t |-> ms]  an ISO-8601 string for the instant t,        *)
(*   [k |-> "bad", t |-> 0]   a string datetime.fromisoformat rejects,     *)
(*   [k |-> "num", t |-> ms]  a JSON value that is no string (a number),   *)
(* and [k |-> "dt", t |-> ms] once parsed into a datetime.                 *)
(* A keystroke is [timestamp, is_backspace]; a compile is [timestamp,      *)
(* success, warning_count, error_message], error_message being <<>> when   *)
(* the key is absent and <<text>> otherwise.                               *)
(***************************************************************************)
RECURSIVE SumRange(_, _, _)
\* s[lo] + ... + s[hi], by halves
SumRange(s, lo, hi) ==
    IF lo > hi THEN 0
    ELSE IF lo = hi THEN s[lo]
    ELSE LET mid == (lo + hi) \div 2
         IN  SumRange(s, lo, mid) + SumRange(s, mid + 1, hi)

SumSeq(s) == SumRange(s, 1, Len(s))

RECURSIVE AtRange(_, _, _, _)
\* the entries s[lo..hi] whose index is in the set I, in order, by halves
AtRange(s, lo, hi, I) ==
    IF lo > hi THEN <<>>
    ELSE IF lo = hi THEN (IF lo \in I THEN <<s[lo]>> ELSE <<>>)
    ELSE LET mid == (lo + hi) \div 2
         IN  AtRange(s, lo, mid, I) \o AtRange(s, mid + 1, hi, I)

\* the entries s[i..] whose index is in the set I, in order
AtIndices(s, i, I) == AtRange(s, i, Len(s), I)

RECURSIVE ISqrtFrom(_, _)
ISqrtFrom(x, r) == IF (r + 1) * (r + 1) > x THEN r ELSE ISqrtFrom(x, r + 1)

\* floor of the square root
ISqrt(x) == ISqrtFrom(x, 0)

\* sorted(s), ascending: place n holds the value v with fewer than n entries
\* below it and at least n entries not above it
Sorted(s) ==
    LET vals == {s[i] : i \in 1..Len(s)}
    IN  [n \in 1..Len(s) |->
            CHOOSE v \in vals :
                /\ Cardinality({j \in 1..Len(s) : s[j] < v}) < n
                /\ n <= Cardinality({j \in 1..Len(s) : s[j] <= v})]

\* s[-n:]
LastN(s, n) == IF Len(s) <= n THEN s ELSE SubSeq(s, Len(s) - n + 1, Len(s))

\* datetime.fromisoformat on a timestamp that is a string; other values are kept
ParseTimestamp(ts) == IF ts.k = "iso" THEN [k |-> "dt", t |-> ts.t] ELSE ts

\* a - b on two timestamps raises unless both are datetimes (an int difference
\* has no total_seconds())
IsDatetime(ts) == ts.k = "dt"

(***************************************************************************)
(* FeatureExtractor.__init__ (feature_extractor.py 16-66)                  *)
(***************************************************************************)
\* window_size: int = 100
window_size == 100

\* deque(maxlen=window_size // 10)
compile_window_size == window_size \div 10

\* self.baseline, in thousandths
InitialBaseline ==
    [typing_speed |-> 40000, backspace_rate |-> 150, compile_success_rate |-> 700,
     keystroke_variance |-> 300, samples |-> 0]

\* deque.append on a deque of the given maxlen
\* a plausible slip: a full window refuses new events and keeps the oldest
DequeExtend_KeepsOldest(dq, xs, maxlen) ==
    IF Len(dq \o xs) <= maxlen THEN dq \o xs ELSE SubSeq(dq \o xs, 1, maxlen)

\* for x in xs: dq.append(x) on a deque(maxlen): every append to a full deque
\* drops the oldest entry, so the last maxlen of dq followed by xs remain
DequeExtend(dq, xs, maxlen) == LastN(dq \o xs, maxlen)

(***************************************************************************)
(* FeatureExtractor.extract_typing_features (feature_extractor.py 106-179) *)
(***************************************************************************)
TypingDefault ==
    [typing_speed |-> 1000, keystroke_variance |-> 500, backspace_rate |-> 0,
     burst_speed |-> 0, pause_frequency |-> 0]

\* the inter-keystroke intervals in ms, all of them
AllIntervals(keystrokes) ==
    [i \in 1..(Len(keystrokes) - 1) |->
        keystrokes[i + 1].timestamp.t - keystrokes[i].timestamp.t]

\* the intervals kept: 10 < interval < 5000
ValidIntervals(keystrokes) ==
    LET all == AllIntervals(keystrokes)
    IN  AtIndices(all, 1, {i \in 1..Len(all) : 10 < all[i] /\ all[i] < 5000})

\* the subtraction of two timestamps raises: some timestamp is no datetime
TypingRaises(keystrokes) ==
    /\ Len(keystrokes) >= 10
    /\ \E i \in 1..Len(keystrokes) : ~IsDatetime(keystrokes[i].timestamp)

extract_typing_features(keystrokes, baseline) ==
    IF Len(keystrokes) < 10 THEN TypingDefault
    ELSE LET intervals == ValidIntervals(keystrokes)
             n == Len(keystrokes)
             cnt == Len(intervals)
             total_ms == keystrokes[n].timestamp.t - keystrokes[1].timestamp.t
             wpm == IF total_ms > 0 THEN (n * 12000000) \div total_ms ELSE 0
             sum == SumSeq(intervals)
             sumsq == SumSeq([i \in 1..cnt |-> intervals[i] * intervals[i]])
             \* std / mean = sqrt(cnt * sumsq - sum^2) / sum
             variance == IF sum > 0
                         THEN (ISqrt(cnt * sumsq - sum * sum) * 1000) \div sum
                         ELSE 500
             backspaces == Cardinality({i \in 1..n : keystrokes[i].is_backspace})
             sorted_intervals == Sorted(intervals)
             burst_threshold == cnt \div 10
             burst_intervals == IF burst_threshold > 0
                                THEN SubSeq(sorted_intervals, 1, burst_threshold)
                                ELSE <<sum \div cnt>>
             \* (1000 / mean(burst_intervals)) / 10.0
             burst_speed == (100000 * Len(burst_intervals)) \div SumSeq(burst_intervals)
             pauses == Cardinality({i \in 1..cnt : intervals[i] > 2000})
         IN  IF intervals = <<>> THEN TypingDefault
             ELSE [typing_speed |-> IF baseline.typing_speed > 0
                                    THEN (wpm * 1000) \div baseline.typing_speed
                                    ELSE 1000,
                   keystroke_variance |-> variance,
                   backspace_rate |-> (backspaces * 1000) \div n,
                   burst_speed |-> burst_speed,
                   pause_frequency |-> (pauses * 1000) \div cnt]

(***************************************************************************)
(* FeatureExtractor.extract_compile_features (feature_extractor.py 181-253)*)
(***************************************************************************)
CompileDefault ==
    [compile_error_rate |-> 0, red_metric |-> 0, warning_rate |-> 0,
     error_severity |-> 0, repeated_error_ratio |-> 0]

\* a plausible slip: every compile that carries a message counts, failed or not
HasError_AnyMessage(c) == c.error_message # <<>>

\* not success and 'error_message' in compile_event
HasError(c) == ~c.success /\ c.error_message # <<>>

\* the list error_patterns: the normalized messages of the failed compiles
ErrorPatterns(compiles) ==
    LET failed == AtIndices(compiles, 1, {i \in 1..Len(compiles) : HasError(compiles[i])})
    IN  [i \in 1..Len(failed) |-> normalize_error_message(failed[i].error_message[1])]

\* a fraction [num, den] in thousandths, rounded down
Milli(q) == (q.num * 1000) \div q.den

\* repeats / len(error_patterns) * 10 as the fraction it is
RedMetricQ(error_patterns_list) ==
    IF Len(error_patterns_list) > 1
    THEN LET repeats == Cardinality({i \in 2..Len(error_patterns_list) :
                           error_patterns_list[i] = error_patterns_list[i - 1]})
         IN  [num |-> repeats * 10, den |-> Len(error_patterns_list)]
    ELSE [num |-> 0, den |-> 1]

\* a plausible slip: the ratio is red_metric itself, not scaled down
RepeatedErrorRatioQ_Unscaled(red_metric) == red_metric

\* red_metric / 10.0
RepeatedErrorRatioQ(red_metric) ==
    [num |-> red_metric.num, den |-> red_metric.den * 10]

\* red_metric in thousandths
RedMetric(error_patterns_list) == Milli(RedMetricQ(error_patterns_list))

\* severity_map.get(error_type, 0.5), in thousandths
Severity(error_type) ==
    CASE error_type = "segmentation_fault" -> 1000
      [] error_type = "memory_leak" -> 900
      [] error_type = "null_pointer" -> 800
      [] error_type = "buffer_overflow" -> 800
      [] error_type = "undefined_reference" -> 600
      [] error_type = "syntax_error" -> 500
      [] error_type = "type_mismatch" -> 400
      [] error_type = "undeclared" -> 300
      [] error_type = "warning" -> 100
      [] OTHER -> 500

extract_compile_features(compiles) ==
    IF compiles = <<>> THEN CompileDefault
    ELSE LET total == Len(compiles)
             failed == Cardinality({i \in 1..total : ~compiles[i].success})
             total_warnings == SumSeq([i \in 1..total |-> compiles[i].warning_count])
             red_metric == RedMetric(ErrorPatterns(compiles))
             witherr == AtIndices(compiles, 1, {i \in 1..Len(compiles) : HasError(compiles[i])})
             severities == [i \in 1..Len(witherr) |->
                               Severity(classify_error(witherr[i].error_message[1]))]
         IN  [compile_error_rate |-> (failed * 1000) \div total,
              red_metric |-> red_metric,
              warning_rate |-> (total_warnings * 1000) \div total,
              error_severity |-> IF severities # <<>>
                                 THEN SumSeq(severities) \div Len(severities) ELSE 0,
              repeated_error_ratio |->
                  Milli(RepeatedErrorRatioQ(RedMetricQ(ErrorPatterns(compiles))))]

\* red_metric and repeated_error_ratio of extract_compile_features as fractions
CompileRed(compiles) ==
    IF compiles = <<>>
    THEN [red_metric |-> [num |-> 0, den |-> 1],
          repeated_error_ratio |-> [num |-> 0, den |-> 1]]
    ELSE LET red_metric == RedMetricQ(ErrorPatterns(compiles))
         IN  [red_metric |-> red_metric,
              repeated_error_ratio |-> RepeatedErrorRatioQ(red_metric)]

(***************************************************************************)
(* AnxietyDetector.get_triggered_features (anxiety_detector.py 104-134).   *)
(* A feature dict is a function from the names it holds to Milli values.   *)
(***************************************************************************)
\* dict.get(key, default)
Get(d, key, default) == IF key \in DOMAIN d THEN d[key] ELSE default

\* a plausible slip: corrections count as excessive only above one half
thresholds_Lenient ==
    [RED_METRIC |-> 2500, TYPING_SPEED |-> 650, BACKSPACE_RATE |-> 500,
     KEYSTROKE_RATE |-> 500]

\* the thresholds dict, in thousandths
thresholds ==
    [RED_METRIC |-> 2500, TYPING_SPEED |-> 650, BACKSPACE_RATE |-> 300,
     KEYSTROKE_RATE |-> 500]

\* the list `triggered` after the six checks, before the fallback
TriggeredReasons(features) ==
    (IF Get(features, "RED_METRIC", 0) > thresholds.RED_METRIC
        THEN <<"Repeated Errors">> ELSE <<>>)
    \o (IF Get(features, "TYPING_SPEED", 1000) < thresholds.TYPING_SPEED
        THEN <<"Slow Typing">> ELSE <<>>)
    \o (IF Get(features, "BACKSPACE_RATE", 0) > thresholds.BACKSPACE_RATE
        THEN <<"Excessive Corrections">> ELSE <<>>)
    \o (IF Get(features, "KEYSTROKE_RATE", 0) > thresholds.KEYSTROKE_RATE
        THEN <<"Irregular Rhythm">> ELSE <<>>)
    \o (IF Get(features, "COMPILE_ERROR", 0) > 500
        THEN <<"Frequent Compilation Errors">> ELSE <<>>)
    \o (IF Get(features, "FOCUS_SWITCHES", 0) > 5000
        THEN <<"Frequent Context Switching">> ELSE <<>>)

\* a plausible slip: the fallback for an empty list is dropped
get_triggered_features_NoFallback(features) == TriggeredReasons(features)

get_triggered_features(features) ==
    IF TriggeredReasons(features) # <<>> THEN TriggeredReasons(features)
    ELSE <<"Normal Pattern">>

(***************************************************************************)
(* FeatureExtractor.extract_behavioral_features (feature_extractor.py      *)
(* 255-330)                                                                *)
(***************************************************************************)
BehavioralDefault ==
    [focus_switches |-> 0, idle_ratio |-> 0, session_duration |-> 0,
     activity_intensity |-> 0, recovery_time |-> 0]

\* the index of the next successful compile after i, 0 when there is none
NextSuccess(compiles, i) ==
    LET later == {j \in (i + 1)..Len(compiles) : compiles[j].success}
    IN  IF later = {} THEN 0 ELSE CHOOSE j \in later : \A k \in later : j <= k

\* the failed compiles, the last one excepted, that a successful one follows
Recovered(compiles) ==
    {i \in 1..(Len(compiles) - 1) : ~compiles[i].success /\ NextSuccess(compiles, i) # 0}

\* a timestamp subtraction of extract_behavioral_features raises
BehavioralRaises(session_data) ==
    /\ Len(session_data.keystrokes) >= 5
    /\ \/ \E i \in 1..Len(session_data.keystrokes) :
             ~IsDatetime(session_data.keystrokes[i].timestamp)
       \/ \E i \in Recovered(session_data.compiles) :
             \/ ~IsDatetime(session_data.compiles[i].timestamp)
             \/ ~IsDatetime(session_data.compiles[
                    NextSuccess(session_data.compiles, i)].timestamp)

extract_behavioral_features(session_data) ==
    LET keystrokes == session_data.keystrokes
        compiles == session_data.compiles
        n == Len(keystrokes)
    IN  IF n < 5 THEN BehavioralDefault
        ELSE LET total_ms == keystrokes[n].timestamp.t - keystrokes[1].timestamp.t
                 gaps == AllIntervals(keystrokes)
                 switches == {i \in 1..Len(gaps) : gaps[i] > 30000}
                 idle_ms == SumSeq(AtIndices(gaps, 1, switches))
                 recovery_ms == [i \in Recovered(compiles) |->
                     compiles[NextSuccess(compiles, i)].timestamp.t
                         - compiles[i].timestamp.t]
                 counted == {i \in Recovered(compiles) : recovery_ms[i] < 300000}
                 recovery_sum == SumSeq(AtIndices(
                     [i \in 1..Len(compiles) |->
                         IF i \in counted THEN recovery_ms[i] ELSE 0], 1, counted))
             IN  [focus_switches |-> 1000 * Cardinality(switches),
                  idle_ratio |-> IF total_ms > 0 THEN (idle_ms * 1000) \div total_ms ELSE 0,
                  session_duration |-> total_ms \div 60,
                  activity_intensity |-> IF total_ms > 0
                                         THEN (n * 600000) \div total_ms ELSE 0,
                  recovery_time |-> IF counted # {}
                                    THEN recovery_sum \div (60 * Cardinality(counted))
                                    ELSE 0]

(***************************************************************************)
(* FeatureExtractor.extract_all_features, update_baseline, get_feature_    *)
(* names (feature_extractor.py 332-413).  An extractor is [baseline,       *)
(* rolling_keystrokes, rolling_compiles].                                  *)
(***************************************************************************)
get_feature_names ==
    <<"TYPING_SPEED", "KEYSTROKE_RATE", "BACKSPACE_RATE", "COMPILE_ERROR",
      "RED_METRIC", "FOCUS_SWITCHES", "IDLE_TO_ACTIVE_RATIO", "UNDO_REDO_ATTEMPT">>

\* {names[i]: float(vector[i]) for i in range(len(vector))}
feature_vector_to_dict(vector) ==
    [name \in {get_feature_names[i] : i \in 1..Len(vector)} |->
        vector[CHOOSE i \in 1..Len(vector) : get_feature_names[i] = name]]

\* a plausible slip: the names are walked in reverse order
dict_to_feature_vector_Reversed(feature_dict) ==
    [i \in 1..Len(get_feature_names) |->
        Get(feature_dict, get_feature_names[Len(get_feature_names) + 1 - i], 0)]

\* [float(feature_dict.get(name, 0)) for name in self.get_feature_names()]
dict_to_feature_vector(feature_dict) ==
    [i \in 1..Len(get_feature_names) |-> Get(feature_dict, get_feature_names[i], 0)]

NewFeatureExtractor ==
    [baseline |-> InitialBaseline, rolling_keystrokes |-> <<>>,
     rolling_compiles |-> <<>>]

\* the two loops that append the snapshot's events to the rolling windows
UpdateRollingWindows(fe, session_data) ==
    [fe EXCEPT
        !.rolling_keystrokes =
            DequeExtend(@, LastN(session_data.keystrokes, window_size), window_size),
        !.rolling_compiles =
            DequeExtend(@, LastN(session_data.compiles, 10), compile_window_size)]

\* some feature group raises
ExtractRaises(session_data) ==
    TypingRaises(session_data.keystrokes) \/ BehavioralRaises(session_data)

\* weight = 0.1: (1 - weight) * old + weight * new
Smooth(old, new) == (9 * old + new) \div 10

\* a plausible slip: the smoothed values move but samples is not counted
update_baseline_NoCount(baseline, features) ==
    [baseline EXCEPT
        !.typing_speed = Smooth(@, Get(features, "TYPING_SPEED", 1000) * 40),
        !.backspace_rate = Smooth(@, Get(features, "BACKSPACE_RATE", 150)),
        !.keystroke_variance = Smooth(@, Get(features, "KEYSTROKE_RATE", 300))]

update_baseline(baseline, features) ==
    [baseline EXCEPT
        !.typing_speed = Smooth(@, Get(features, "TYPING_SPEED", 1000) * 40),
        !.backspace_rate = Smooth(@, Get(features, "BACKSPACE_RATE", 150)),
        !.keystroke_variance = Smooth(@, Get(features, "KEYSTROKE_RATE", 300)),
        !.samples = @ + 1]

\* a plausible slip: typing speed is divided by the baseline this call's own
\* update produces
Features_PostUpdate(fe, session_data) ==
    LET first == extract_typing_features(session_data.keystrokes, fe.baseline)
        updated == update_baseline(fe.baseline,
                       [TYPING_SPEED |-> first.typing_speed,
                        KEYSTROKE_RATE |-> first.keystroke_variance,
                        BACKSPACE_RATE |-> first.backspace_rate])
        typing_features == extract_typing_features(session_data.keystrokes, updated)
        compile_features == extract_compile_features(session_data.compiles)
        behavioral_features == extract_behavioral_features(session_data)
    IN  [TYPING_SPEED |-> typing_features.typing_speed,
         KEYSTROKE_RATE |-> typing_features.keystroke_variance,
         BACKSPACE_RATE |-> typing_features.backspace_rate,
         COMPILE_ERROR |-> compile_features.compile_error_rate,
         RED_METRIC |-> compile_features.red_metric,
         FOCUS_SWITCHES |-> behavioral_features.focus_switches,
         IDLE_TO_ACTIVE_RATIO |-> behavioral_features.idle_ratio,
         UNDO_REDO_ATTEMPT |-> IF typing_features.backspace_rate > 400 THEN 1000 ELSE 0]

\* a plausible slip: the typing group is fed the rolling window
Features_FromWindow(fe, session_data) ==
    LET typing_features == extract_typing_features(fe.rolling_keystrokes, fe.baseline)
        compile_features == extract_compile_features(session_data.compiles)
        behavioral_features == extract_behavioral_features(session_data)
    IN  [TYPING_SPEED |-> typing_features.typing_speed,
         KEYSTROKE_RATE |-> typing_features.keystroke_variance,
         BACKSPACE_RATE |-> typing_features.backspace_rate,
         COMPILE_ERROR |-> compile_features.compile_error_rate,
         RED_METRIC |-> compile_features.red_metric,
         FOCUS_SWITCHES |-> behavioral_features.focus_switches,
         IDLE_TO_ACTIVE_RATIO |-> behavioral_features.idle_ratio,
         UNDO_REDO_ATTEMPT |-> IF typing_features.backspace_rate > 400 THEN 1000 ELSE 0]

\* the dict extract_all_features returns (when no group raises)
Features(fe, session_data) ==
    LET typing_features == extract_typing_features(session_data.keystrokes, fe.baseline)
        compile_features == extract_compile_features(session_data.compiles)
        behavioral_features == extract_behavioral_features(session_data)
    IN  [TYPING_SPEED |-> typing_features.typing_speed,
         KEYSTROKE_RATE |-> typing_features.keystroke_variance,
         BACKSPACE_RATE |-> typing_features.backspace_rate,
         COMPILE_ERROR |-> compile_features.compile_error_rate,
         RED_METRIC |-> compile_features.red_metric,
         FOCUS_SWITCHES |-> behavioral_features.focus_switches,
         IDLE_TO_ACTIVE_RATIO |-> behavioral_features.idle_ratio,
         UNDO_REDO_ATTEMPT |-> IF typing_features.backspace_rate > 400 THEN 1000 ELSE 0]

(***************************************************************************)
(* ModelLoader (model_loader.py 42-209).  The files of a model directory   *)
(* are a record:                                                           *)
(*   model    "ok", "missing", "no_predict", "no_predict_proba", "corrupt" *)
(*   encoder  "ok", "missing", "no_classes"                                *)
(*   scaler   "ok", "missing", "no_mean"                                   *)
(*   n_names  entries of feature_names.json, 0 when there is no such file  *)
(*   n_features  the scaler's n_features_in_                               *)
(***************************************************************************)
verify_model(files) ==
    /\ files.model \notin {"no_predict", "no_predict_proba"}
    /\ files.encoder # "no_classes"
    /\ files.scaler # "no_mean"
    \* a feature count mismatch is printed and nothing more

load_models(files) ==
    /\ files.model # "missing"
    /\ files.model # "corrupt"
    /\ files.encoder # "missing"
    /\ files.scaler # "missing"
    /\ verify_model(files)

\* the length of the vector predict_from_dict builds from the 8-entry dict
VectorWidth(files) ==
    IF files.n_names > 0 THEN files.n_names ELSE Len(get_feature_names)

\* scaler.transform raises on a vector of another width
PredictRaises(files) == VectorWidth(files) # files.n_features

(***************************************************************************)
(* AnxietyDetector (anxiety_detector.py 25-176).  A detector is            *)
(* [model_loader, feature_extractor, last_intervention]; last_intervention *)
(* is <<>> for None and <<t>> for the instant t (seconds).                 *)
(***************************************************************************)
\* self.intervention_cooldown = 300
intervention_cooldown == 300

NewDetector(files) ==
    [model_loader |-> files, feature_extractor |-> NewFeatureExtractor,
     last_intervention |-> <<>>]

\* a plausible slip: the cooldown is compared in minutes, not seconds
Cooling_Minutes(last_intervention, t) ==
    /\ last_intervention # <<>>
    /\ t - last_intervention[1] < intervention_cooldown \div 60

\* the cooldown check of should_intervene, reading the clock at t
Cooling(last_intervention, t) ==
    /\ last_intervention # <<>>
    /\ t - last_intervention[1] < intervention_cooldown

\* a plausible slip: a call refused during the cooldown restarts the cooldown
should_intervene_RestartsCooldown(last_intervention, anxiety_level, confidence, t_check, t_stamp) ==
    IF Cooling(last_intervention, t_check)
    THEN [result |-> FALSE, last_intervention |-> <<t_stamp>>]
    ELSE IF anxiety_level \in {"High", "Extreme"} /\ confidence > 700
    THEN [result |-> TRUE, last_intervention |-> <<t_stamp>>]
    ELSE [result |-> FALSE, last_intervention |-> last_intervention]

\* a plausible slip: confidence >= 0.7 instead of > 0.7
should_intervene_AtLeast(last_intervention, anxiety_level, confidence, t_check, t_stamp) ==
    IF Cooling(last_intervention, t_check)
    THEN [result |-> FALSE, last_intervention |-> last_intervention]
    ELSE IF anxiety_level \in {"High", "Extreme"} /\ confidence >= 700
    THEN [result |-> TRUE, last_intervention |-> <<t_stamp>>]
    ELSE [result |-> FALSE, last_intervention |-> last_intervention]

\* should_intervene: the clock reads t_check at the cooldown check and t_stamp
\* at the stamp.  The result and the new last_intervention.
should_intervene(last_intervention, anxiety_level, confidence, t_check, t_stamp) ==
    IF Cooling(last_intervention, t_check)
    THEN [result |-> FALSE, last_intervention |-> last_intervention]
    ELSE IF anxiety_level \in {"High", "Extreme"} /\ confidence > 700
    THEN [result |-> TRUE, last_intervention |-> <<t_stamp>>]
    ELSE [result |-> FALSE, last_intervention |-> last_intervention]

\* the timestamps of a session as analyze_session leaves them when no parse fails
ParseSession(session_data) ==
    [session_data EXCEPT
        !.keystrokes = [i \in 1..Len(@) |->
            [@[i] EXCEPT !.timestamp = ParseTimestamp(@)]],
        !.compiles = [i \in 1..Len(@) |->
            [@[i] EXCEPT !.timestamp = ParseTimestamp(@)]]]

\* datetime.fromisoformat raises on some string of the session
ParseRaises(session_data) ==
    \/ session_data.session_start = "bad"
    \/ session_data.last_activity = "bad"
    \/ \E i \in 1..Len(session_data.keystrokes) :
          session_data.keystrokes[i].timestamp.k = "bad"
    \/ \E i \in 1..Len(session_data.compiles) :
          session_data.compiles[i].timestamp.k = "bad"

NoPrediction == <<>>

\* analyze_session on detector d: how it ends, the detector it leaves and the
\* result it returns.  The oracle answers (level, confidence); the clock reads
\* t_check and t_stamp inside should_intervene.
analyze_session(d, session_data, level, confidence, t_check, t_stamp) ==
    IF ParseRaises(session_data)
    THEN [outcome |-> "parse_error", detector |-> d, prediction |-> NoPrediction]
    ELSE
    LET parsed == ParseSession(session_data)
        fe1 == UpdateRollingWindows(d.feature_extractor, parsed)
        d1 == [d EXCEPT !.feature_extractor = fe1]
    IN  IF ExtractRaises(parsed)
        THEN [outcome |-> "extract_error", detector |-> d1, prediction |-> NoPrediction]
        ELSE
        LET features == Features(fe1, parsed)
            d2 == [d1 EXCEPT !.feature_extractor.baseline = update_baseline(@, features)]
        IN  IF PredictRaises(d.model_loader)
            THEN [outcome |-> "predict_error", detector |-> d2,
                  prediction |-> NoPrediction]
            ELSE
            LET si == should_intervene(d.last_intervention, level, confidence,
                                       t_check, t_stamp)
            IN  [outcome |-> "ok",
                 detector |-> [d2 EXCEPT !.last_intervention = si.last_intervention],
                 prediction |-> <<[level |-> level, confidence |-> confidence,
                                   features |-> features,
                                   triggered_features |-> get_triggered_features(features),
                                   should_intervene |-> si.result]>>]

\* the keys of the hints dict, in the order it is written
hint_keys == <<
    <<"s", "y", "n", "t", "a", "x", "_", "e", "r", "r", "o", "r">>,
    <<"m", "i", "s", "s", "i", "n", "g", "_", "s", "e", "m", "i", "c", "o", "l", "o", "n">>,
    <<"u", "n", "d", "e", "f", "i", "n", "e", "d", "_", "r", "e", "f", "e", "r", "e", "n", "c", "e">>,
    <<"m", "i", "s", "s", "i", "n", "g", "_", "h", "e", "a", "d", "e", "r">>,
    <<"s", "e", "g", "m", "e", "n", "t", "a", "t", "i", "o", "n", "_", "f", "a", "u", "l", "t">>,
    <<"n", "u", "l", "l", "_", "p", "o", "i", "n", "t", "e", "r">>,
    <<"a", "r", "r", "a", "y", "_", "b", "o", "u", "n", "d", "s">>,
    <<"u", "n", "i", "n", "i", "t", "i", "a", "l", "i", "z", "e", "d">>,
    <<"m", "e", "m", "o", "r", "y", "_", "l", "e", "a", "k">>,
    <<"b", "u", "f", "f", "e", "r", "_", "o", "v", "e", "r", "f", "l", "o", "w">>,
    <<"t", "y", "p", "e", "_", "m", "i", "s", "m", "a", "t", "c", "h">>,
    <<"n", "o", "_", "m", "a", "t", "c", "h", "i", "n", "g", "_", "f", "u", "n", "c", "t", "i", "o", "n">>,
    <<"a", "m", "b", "i", "g", "u", "o", "u", "s">>,
    <<"r", "e", "d", "e", "f", "i", "n", "i", "t", "i", "o", "n">>,
    <<"u", "n", "d", "e", "c", "l", "a", "r", "e", "d">>,
    <<"i", "n", "c", "o", "m", "p", "l", "e", "t", "e", "_", "t", "y", "p", "e">>
>>

RECURSIVE HintFrom(_, _)
\* the loop of get_error_hint from entry k on: the index of the hint returned,
\* 0 for the generic one
HintFrom(k, lowered) ==
    IF k > Len(hint_keys) THEN 0
    ELSE IF \E i \in 1..Len(lowered) : LitAt(lowered, i, hint_keys[k]) THEN k
    ELSE HintFrom(k + 1, lowered)

get_error_hint(error_type) == HintFrom(1, Lower(error_type))

(***************************************************************************)
(* Harnesses of the pure functions: Init draws the input, the action       *)
(* applies the function.                                                   *)
(***************************************************************************)
\* most fragments of one classify input
MaxClassifyFrags == 2
\* most fragments of one normalize input
MaxNormFrags == 3

ClassifyFragments == {
    <<"s", "y", "n", "t", "a", "x", " ", "e", "r", "r", "o", "r">>,
    <<"e", "x", "p", "e", "c", "t", "e", "d">>,
    <<"U", "n", "e", "x", "p", "e", "c", "t", "e", "d">>,
    <<"m", "i", "s", "s", "i", "n", "g">>,
    <<";">>,
    <<"\n">>,
    <<"u", "n", "d", "e", "f", "i", "n", "e", "d", " ", "r", "e", "f", "e", "r", "e", "n", "c", "e">>,
    <<"i", "n", "c", "l", "u", "d", "e">>,
    <<"a", "c", "c", "e", "s", "s", " ", "v", "i", "o", "l", "a", "t", "i", "o", "n">>,
    <<"N", "U", "L", "L">>,
    <<"i", "n", "d", "e", "x">>,
    <<"o", "u", "t", " ", "o", "f", " ", "r", "a", "n", "g", "e">>,
    <<"u", "n", "i", "n", "i", "t", "i", "a", "l", "i", "z", "e", "d">>,
    <<"l", "e", "a", "k", "e", "d">>,
    <<"s", "t", "a", "c", "k", " ", "o", "v", "e", "r", "f", "l", "o", "w">>,
    <<"c", "a", "n", "n", "o", "t", " ", "c", "o", "n", "v", "e", "r", "t">>,
    <<"o", "v", "e", "r", "l", "o", "a", "d">>,
    <<"n", "o", "t", " ", "f", "o", "u", "n", "d">>,
    <<"a", "m", "b", "i", "g", "u", "o", "u", "s">>,
    <<"r", "e", "d", "e", "f", "i", "n", "i", "t", "i", "o", "n">>,
    <<"u", "n", "d", "e", "c", "l", "a", "r", "e", "d">>,
    <<"f", "o", "r", "w", "a", "r", "d", " ", "d", "e", "c", "l", "a", "r", "a", "t", "i", "o", "n">>,
    <<"x">>,
    <<" ">>}

NormFragments == {
    <<"l", "i", "n", "e">>,
    <<"c", "o", "l", "u", "m", "n">>,
    <<" ">>,
    <<"5">>,
    <<"0", "x">>,
    <<"1", "f">>,
    <<"'">>,
    <<"\"">>,
    <<":">>,
    <<"\\">>,
    <<"C">>,
    <<"a">>}

ClassifyTexts == {Concat(fs) : fs \in SeqsUpTo(ClassifyFragments, MaxClassifyFrags)}
NormTexts == {Concat(fs) : fs \in SeqsUpTo(NormFragments, MaxNormFrags)}

\* the six features the rule engine reads
RuleFeatures == {"RED_METRIC", "TYPING_SPEED", "BACKSPACE_RATE", "KEYSTROKE_RATE",
                 "COMPILE_ERROR", "FOCUS_SWITCHES"}

\* the value the rule engine compares feature k with
RuleThreshold(k) ==
    CASE k = "RED_METRIC" -> 2500
      [] k = "TYPING_SPEED" -> 650
      [] k = "BACKSPACE_RATE" -> 300
      [] k = "KEYSTROKE_RATE" -> 500
      [] k = "COMPILE_ERROR" -> 500
      [] k = "FOCUS_SWITCHES" -> 5000

\* the dict chosen by c: per feature 0 absent, 1 below, 2 at, 3 above its threshold
FeatureDictOf(c) ==
    [k \in {n \in RuleFeatures : c[n] # 0} |-> RuleThreshold(k) + c[k] - 2]

\* the server part of a state in which only a pure function runs
ServerIdle ==
    /\ detector = <<>>
    /\ running = TRUE
    /\ conn = "waiting"
    /\ now = 0
    /\ last = [type |-> "none"]
    /\ nreq = 0
    /\ nticks = 0
    /\ approvals = <<>>
    /\ last_init = "none"

NoText == <<>>
NoDict == [k \in {} |-> 0]

InitClassify ==
    /\ ServerIdle
    /\ pc = "in"
    /\ text \in ClassifyTexts
    /\ out1 = NoText /\ out2 = NoText /\ category = "" /\ fvec = NoDict
    /\ triggered = <<>>
    /\ arg = <<>> /\ res = <<>>

Classify ==
    /\ pc = "in"
    /\ category' = classify_error(text)
    /\ pc' = "done"
    /\ UNCHANGED <<text, out1, out2, fvec, triggered, arg, res>>
    /\ UNCHANGED serverVars

SpecClassify == InitClassify /\ [][Classify]_vars

InitNormalize ==
    /\ ServerIdle
    /\ pc = "in"
    /\ text \in NormTexts
    /\ out1 = NoText /\ out2 = NoText /\ category = "" /\ fvec = NoDict
    /\ triggered = <<>>
    /\ arg = <<>> /\ res = <<>>

NormalizeOnce ==
    /\ pc = "in"
    /\ out1' = normalize_error_message(text)
    /\ pc' = "once"
    /\ UNCHANGED <<text, out2, category, fvec, triggered, arg, res>>
    /\ UNCHANGED serverVars

NormalizeTwice ==
    /\ pc = "once"
    /\ out2' = normalize_error_message(out1)
    /\ pc' = "done"
    /\ UNCHANGED <<text, out1, category, fvec, triggered, arg, res>>
    /\ UNCHANGED serverVars

NextNormalize == NormalizeOnce \/ NormalizeTwice

SpecNormalize == InitNormalize /\ [][NextNormalize]_vars

InitTriggered ==
    /\ ServerIdle
    /\ pc = "in"
    /\ \E c \in [RuleFeatures -> 0..3] : fvec = FeatureDictOf(c)
    /\ text = NoText /\ out1 = NoText /\ out2 = NoText /\ category = ""
    /\ triggered = <<>>
    /\ arg = <<>> /\ res = <<>>

Trigger ==
    /\ pc = "in"
    /\ triggered' = get_triggered_features(fvec)
    /\ pc' = "done"
    /\ UNCHANGED <<text, out1, out2, category, fvec, arg, res>>
    /\ UNCHANGED serverVars

SpecTriggered == InitTriggered /\ [][Trigger]_vars

(***************************************************************************)
(* Inputs of the server: model directories, session snapshots, the         *)
(* oracle's answers, error types of get_hint and clock steps.              *)
(***************************************************************************)
\* most requests one run of the server handles
MaxRequests == 3
\* most clock steps of one run
MaxTicks == 2

GoodFiles ==
    [model |-> "ok", encoder |-> "ok", scaler |-> "ok", n_names |-> 8, n_features |-> 8]

\* what each model directory holds
Files(model_dir) ==
    CASE model_dir = "good" -> GoodFiles
      [] model_dir = "no_model" -> [GoodFiles EXCEPT !.model = "missing"]
      [] model_dir = "corrupt_model" -> [GoodFiles EXCEPT !.model = "corrupt"]
      [] model_dir = "no_encoder" -> [GoodFiles EXCEPT !.encoder = "missing"]
      [] model_dir = "no_scaler" -> [GoodFiles EXCEPT !.scaler = "missing"]
      [] model_dir = "no_predict" -> [GoodFiles EXCEPT !.model = "no_predict"]
      [] model_dir = "no_predict_proba" -> [GoodFiles EXCEPT !.model = "no_predict_proba"]
      [] model_dir = "no_classes" -> [GoodFiles EXCEPT !.encoder = "no_classes"]
      [] model_dir = "no_mean" -> [GoodFiles EXCEPT !.scaler = "no_mean"]
      [] model_dir = "count_mismatch" -> [GoodFiles EXCEPT !.n_names = 7]

ModelDirs ==
    {"good", "no_model", "corrupt_model", "no_encoder", "no_scaler", "no_predict",
     "no_predict_proba", "no_classes", "no_mean", "count_mismatch"}

Ts(k, t) == [k |-> k, t |-> t]

\* n keystrokes `gap` ms apart, the first nb of them backspaces; the timestamp
\* of keystroke `odd` (0: none) arrives as `kind` instead of an ISO string
Keystrokes(n, gap, nb, odd, kind) ==
    [i \in 1..n |->
        [timestamp |-> Ts(IF i = odd THEN kind ELSE "iso",
                          IF i = odd /\ kind = "bad" THEN 0 ELSE (i - 1) * gap),
         is_backspace |-> i <= nb]]

Compile(k, t, success, message) ==
    [timestamp |-> Ts(k, t), success |-> success, warning_count |-> 0,
     error_message |-> message]

Msg_line5 == <<"e", "r", "r", "o", "r", " ", "a", "t", " ", "l", "i", "n", "e", " ", "5">>
Msg_line7 == <<"e", "r", "r", "o", "r", " ", "a", "t", " ", "l", "i", "n", "e", " ", "7">>

Session(start, keystrokes, compiles) ==
    [session_start |-> start, last_activity |-> "iso",
     keystrokes |-> keystrokes, compiles |-> compiles]

\* what each named snapshot holds
SessionData(name) ==
    CASE name = "steady" ->
            \* 12 keystrokes 200 ms apart, no backspace, no compile
            Session("iso", Keystrokes(12, 200, 0, 0, "iso"), <<>>)
      [] name = "corrections" ->
            \* half of the keystrokes are backspaces; two failed compiles with the
            \* same error on different lines, then a success
            Session("iso", Keystrokes(12, 1000, 6, 0, "iso"),
                    <<Compile("iso", 1000, FALSE, <<Msg_line5>>),
                      Compile("iso", 5000, FALSE, <<Msg_line7>>),
                      Compile("iso", 9000, TRUE, <<>>)>>)
      [] name = "bad_keystroke" ->
            \* a keystroke timestamp that is no ISO-8601 string
            Session("iso", Keystrokes(12, 200, 0, 3, "bad"), <<>>)
      [] name = "bad_compile" ->
            \* a compile timestamp that is no ISO-8601 string
            Session("iso", Keystrokes(12, 200, 0, 0, "iso"),
                    <<Compile("bad", 0, FALSE, <<Msg_line5>>)>>)
      [] name = "bad_start" ->
            \* session_start is no ISO-8601 string
            Session("bad", Keystrokes(12, 200, 0, 0, "iso"), <<>>)
      [] name = "num_keystroke" ->
            \* a keystroke timestamp that is a number, among 12 keystrokes
            Session("iso", Keystrokes(12, 200, 0, 3, "num"), <<>>)
      [] name = "num_short" ->
            \* a keystroke timestamp that is a number, among 3 keystrokes
            Session("iso", Keystrokes(3, 200, 0, 2, "num"), <<>>)

Sessions ==
    {"steady", "corrections", "bad_keystroke", "bad_compile", "bad_start",
     "num_keystroke", "num_short"}

\* the answers (level, confidence in thousandths) the oracle may give
OracleAnswers ==
    {[level |-> "Low", confidence |-> 900], [level |-> "High", confidence |-> 700],
     [level |-> "High", confidence |-> 900], [level |-> "Extreme", confidence |-> 900]}

\* seconds the clock may advance by between two requests
TickSteps == {10, 300}

ErrorTypes == {<<"S", "y", "n", "t", "a", "x", "_", "E", "r", "r", "o", "r">>, <<"u", "n", "d", "e", "c", "l", "a", "r", "e", "d">>, <<"o", "t", "h", "e", "r">>}

(***************************************************************************)
(* PipeServer (anxiety_detector.py 178-339): run's loops and               *)
(* handle_request.  `last` records the request handled last and the        *)
(* response written for it.                                                *)
(***************************************************************************)
\* `session` names the snapshot of an analyze request
Response(type, status, session, outcome, prediction, hint) ==
    [type |-> type, status |-> status, session |-> session,
     outcome |-> outcome, prediction |-> prediction, hint |-> hint]

NoRequest == Response("none", "none", "", "", NoPrediction, 0)

PureIdle ==
    /\ pc = "idle"
    /\ text = <<>> /\ out1 = <<>> /\ out2 = <<>> /\ category = ""
    /\ fvec = [k \in {} |-> 0]
    /\ triggered = <<>>
    /\ arg = <<>> /\ res = <<>>

\* PipeServer.__init__, then run() is entered
Init ==
    /\ detector = <<>>
    /\ running = TRUE
    /\ conn = "waiting"
    /\ now = 0
    /\ last = NoRequest
    /\ nreq = 0
    /\ nticks = 0
    /\ approvals = <<>>
    /\ last_init = "none"
    /\ PureIdle

\* a plausible slip: the detector is installed whether or not loading succeeds
initialize_detector_Always(old, model_dir) ==
    [success |-> load_models(Files(model_dir)),
     detector |-> <<NewDetector(Files(model_dir))>>]

\* a plausible variant: a failed initialize drops the detector
initialize_detector_Clears(old, model_dir) ==
    IF load_models(Files(model_dir))
    THEN [success |-> TRUE, detector |-> <<NewDetector(Files(model_dir))>>]
    ELSE [success |-> FALSE, detector |-> <<>>]

\* initialize_detector: AnxietyDetector(model_dir) raises when load_models fails,
\* and self.detector is assigned only when it does not
initialize_detector(old, model_dir) ==
    IF load_models(Files(model_dir))
    THEN [success |-> TRUE, detector |-> <<NewDetector(Files(model_dir))>>]
    ELSE [success |-> FALSE, detector |-> old]

\* a plausible slip: the inner loop is `while True`
CanRead_WhileTrue == conn = "connected" /\ nreq < MaxRequests

\* the inner loop reads the next request: `while self.running`
CanRead == conn = "connected" /\ running /\ nreq < MaxRequests

\* CreateNamedPipe and ConnectNamedPipe: a client connects
Connect ==
    /\ conn = "waiting"
    /\ running
    /\ conn' = "connected"
    /\ UNCHANGED <<detector, running, now, last, nreq, nticks, approvals, last_init>>
    /\ UNCHANGED pureVars

\* request type 'initialize'
HandleInitialize ==
    /\ CanRead
    /\ \E model_dir \in ModelDirs :
          LET r == initialize_detector(detector, model_dir)
          IN  /\ detector' = r.detector
              /\ last' = Response("initialize", IF r.success THEN "ok" ELSE "error",
                                  "", "", NoPrediction, 0)
              /\ last_init' = IF r.success THEN "ok" ELSE "error"
              /\ approvals' = IF r.success THEN <<>> ELSE approvals
    /\ nreq' = nreq + 1
    /\ UNCHANGED <<running, conn, now, nticks>>
    /\ UNCHANGED pureVars

\* request type 'analyze' with no detector
HandleAnalyzeNoDetector ==
    /\ CanRead
    /\ detector = <<>>
    /\ last' = Response("analyze", "error", "", "not_initialized", NoPrediction, 0)
    /\ nreq' = nreq + 1
    /\ UNCHANGED <<detector, running, conn, now, nticks, approvals, last_init>>
    /\ UNCHANGED pureVars

\* request type 'analyze' with a detector: analyze_session returns, or raises
\* and run() answers with an error response
HandleAnalyze ==
    /\ CanRead
    /\ detector # <<>>
    \* both clock reads of should_intervene fall in the same second
    /\ \E session \in Sessions, answer \in OracleAnswers :
          \E r \in {analyze_session(detector[1], SessionData(session), answer.level,
                                    answer.confidence, now, now)} :
              /\ detector' = <<r.detector>>
              /\ last' = Response("analyze", IF r.outcome = "ok" THEN "ok" ELSE "error",
                                  session, r.outcome, r.prediction, 0)
              /\ approvals' = IF r.outcome = "ok" /\ r.prediction[1].should_intervene
                              THEN Append(approvals, now) ELSE approvals
    /\ nreq' = nreq + 1
    /\ UNCHANGED <<running, conn, now, nticks, last_init>>
    /\ UNCHANGED pureVars

\* request type 'get_hint'
HandleGetHint ==
    /\ CanRead
    /\ \E error_type \in ErrorTypes :
          last' = IF detector = <<>>
                  THEN Response("get_hint", "error", "", "not_initialized", NoPrediction, 0)
                  ELSE Response("get_hint", "ok", "", "", NoPrediction,
                                get_error_hint(error_type))
    /\ nreq' = nreq + 1
    /\ UNCHANGED <<detector, running, conn, now, nticks, approvals, last_init>>
    /\ UNCHANGED pureVars

\* request type 'shutdown'
HandleShutdown ==
    /\ CanRead
    /\ running' = FALSE
    /\ last' = Response("shutdown", "ok", "", "", NoPrediction, 0)
    /\ nreq' = nreq + 1
    /\ UNCHANGED <<detector, conn, now, nticks, approvals, last_init>>
    /\ UNCHANGED pureVars

\* any other request type
HandleUnknown ==
    /\ CanRead
    /\ last' = Response("unknown", "error", "", "unknown_type", NoPrediction, 0)
    /\ nreq' = nreq + 1
    /\ UNCHANGED <<detector, running, conn, now, nticks, approvals, last_init>>
    /\ UNCHANGED pureVars

\* a plausible slip: the JSON error handler answers and then leaves the loop
InvalidJson_Breaks ==
    /\ CanRead
    /\ last' = Response("invalid_json", "error", "", "invalid_json", NoPrediction, 0)
    /\ nreq' = nreq + 1
    /\ conn' = "waiting"
    /\ UNCHANGED <<detector, running, now, nticks, approvals, last_init>>
    /\ UNCHANGED pureVars

\* the bytes read are no JSON: json.JSONDecodeError, an error response
InvalidJson ==
    /\ CanRead
    /\ last' = Response("invalid_json", "error", "", "invalid_json", NoPrediction, 0)
    /\ nreq' = nreq + 1
    /\ UNCHANGED <<detector, running, conn, now, nticks, approvals, last_init>>
    /\ UNCHANGED pureVars

\* ReadFile or WriteFile fails (the client went away): the inner loop breaks and
\* the outer loop waits for the next client
PipeError ==
    /\ conn = "connected"
    /\ running
    /\ conn' = "waiting"
    /\ UNCHANGED <<detector, running, now, last, nreq, nticks, approvals, last_init>>
    /\ UNCHANGED pureVars

\* running is false: both loops end
Stop ==
    /\ conn \in {"connected", "waiting"}
    /\ ~running
    /\ conn' = "stopped"
    /\ UNCHANGED <<detector, running, now, last, nreq, nticks, approvals, last_init>>
    /\ UNCHANGED pureVars

\* KeyboardInterrupt in run()
Interrupt ==
    /\ conn \in {"connected", "waiting"}
    /\ running
    /\ running' = FALSE
    /\ conn' = "stopped"
    /\ UNCHANGED <<detector, now, last, nreq, nticks, approvals, last_init>>
    /\ UNCHANGED pureVars

\* the wall clock advances
Tick ==
    /\ conn # "stopped"
    /\ nticks < MaxTicks
    /\ \E step \in TickSteps : now' = now + step
    /\ nticks' = nticks + 1
    /\ UNCHANGED <<detector, running, conn, last, nreq, approvals, last_init>>
    /\ UNCHANGED pureVars

Next ==
    \/ Connect
    \/ HandleInitialize
    \/ HandleAnalyzeNoDetector
    \/ HandleAnalyze
    \/ HandleGetHint
    \/ HandleShutdown
    \/ HandleUnknown
    \/ InvalidJson
    \/ PipeError
    \/ Stop
    \/ Interrupt
    \/ Tick

Spec == Init /\ [][Next]_vars

(***************************************************************************)
(* extract_compile_features applied on its own to bounded lists of compile *)
(* events.                                                                 *)
(***************************************************************************)
\* most compile events of one list
MaxCompiles == 3

Msg_other == <<"x">>

\* a success, failures with messages that normalize alike or not, a
\* failure that carries no error_message and a success that carries one
CompileEvents ==
    {Compile("dt", 0, TRUE, <<>>), Compile("dt", 0, TRUE, <<Msg_line5>>),
     Compile("dt", 0, FALSE, <<Msg_line5>>),
     Compile("dt", 0, FALSE, <<Msg_line7>>), Compile("dt", 0, FALSE, <<Msg_other>>),
     Compile("dt", 0, FALSE, <<>>)}

InitCompile ==
    /\ ServerIdle
    /\ pc = "in"
    /\ arg \in SeqsUpTo(CompileEvents, MaxCompiles)
    /\ res = <<>>
    /\ text = NoText /\ out1 = NoText /\ out2 = NoText /\ category = ""
    /\ fvec = NoDict /\ triggered = <<>>

ExtractCompile ==
    /\ pc = "in"
    /\ res' = [features |-> extract_compile_features(arg), exact |-> CompileRed(arg)]
    /\ pc' = "done"
    /\ UNCHANGED <<text, out1, out2, category, fvec, triggered, arg>>
    /\ UNCHANGED serverVars

SpecCompile == InitCompile /\ [][ExtractCompile]_vars

(***************************************************************************)
(* dict_to_feature_vector and feature_vector_to_dict applied in turn to    *)
(* dicts over subsets of the canonical names.                              *)
(***************************************************************************)
CanonicalNames == {get_feature_names[i] : i \in 1..Len(get_feature_names)}

\* the values a feature takes in a round-trip input, in thousandths
RoundTripValues == {0, 1500}

InitRoundTrip ==
    /\ ServerIdle
    /\ pc = "in"
    /\ \E keys \in SUBSET CanonicalNames : arg \in [keys -> RoundTripValues]
    /\ res = <<>>
    /\ text = NoText /\ out1 = NoText /\ out2 = NoText /\ category = ""
    /\ fvec = NoDict /\ triggered = <<>>

RoundTrip ==
    /\ pc = "in"
    /\ res' = feature_vector_to_dict(dict_to_feature_vector(arg))
    /\ pc' = "done"
    /\ UNCHANGED <<text, out1, out2, category, fvec, triggered, arg>>
    /\ UNCHANGED serverVars

SpecRoundTrip == InitRoundTrip /\ [][RoundTrip]_vars

(***************************************************************************)
(* extract_all_features called again and again on one extractor, with      *)
(* snapshots smaller and larger than the rolling windows.  arg is the      *)
(* extractor; res records every event supplied so far, the latest snapshot *)
(* and the features returned for it.                                       *)
(***************************************************************************)
\* most extract_all_features calls on the extractor
MaxCalls == 3

\* sizes of the snapshots' keystroke and compile lists
SnapshotKeystrokes == {3, 60, 120}
SnapshotCompiles == {4, 12}

\* the snapshot of call number `call`: nk keystrokes 200 ms apart, every 4th
\* a backspace, and nc compiles one second apart, every 3rd a success
Snapshot(nk, nc, call) ==
    Session("iso",
            [i \in 1..nk |->
                [timestamp |-> Ts("dt", call * 100000 + (i - 1) * 200),
                 is_backspace |-> i % 4 = 0]],
            [j \in 1..nc |->
                Compile("dt", call * 100000 + j * 1000, j % 3 = 0,
                        IF j % 3 = 0 THEN <<>> ELSE <<Msg_line5>>)])

InitExtractor ==
    /\ ServerIdle
    /\ pc = "in"
    /\ arg = NewFeatureExtractor
    /\ res = [keystrokes |-> <<>>, compiles |-> <<>>, calls |-> 0,
              snapshot |-> <<>>, features |-> <<>>]
    /\ text = NoText /\ out1 = NoText /\ out2 = NoText /\ category = ""
    /\ fvec = NoDict /\ triggered = <<>>

\* extract_all_features(session_data)
ExtractAll ==
    /\ pc = "in"
    /\ res.calls < MaxCalls
    /\ \E nk \in SnapshotKeystrokes, nc \in SnapshotCompiles :
          LET session_data == Snapshot(nk, nc, res.calls)
              fe == UpdateRollingWindows(arg, session_data)
          IN  /\ arg' = fe
              /\ res' = [keystrokes |-> res.keystrokes \o session_data.keystrokes,
                         compiles |-> res.compiles \o session_data.compiles,
                         calls |-> res.calls + 1,
                         snapshot |-> <<[nk |-> nk, nc |-> nc, call |-> res.calls]>>,
                         features |-> <<Features(fe, session_data)>>]
    /\ UNCHANGED <<pc, text, out1, out2, category, fvec, triggered>>
    /\ UNCHANGED serverVars

SpecExtractor == InitExtractor /\ [][ExtractAll]_vars

(***************************************************************************)
(* One analyze_session call (anxiety_detector.py 53-102) on a fresh        *)
(* detector, over snapshots that differ in how many keystrokes they hold   *)
(* and how many of them are backspaces.                                    *)
(***************************************************************************)
MaxKeystrokes == 12

\* snapshots below the ten keystrokes the typing features need, and from ten up
KeystrokeCounts == {3} \cup 10..MaxKeystrokes

InitAnalyze ==
    /\ ServerIdle
    /\ pc = "in"
    /\ \E n \in KeystrokeCounts, nb \in 0..MaxKeystrokes, answer \in OracleAnswers :
          /\ nb <= n
          /\ arg = [n |-> n, nb |-> nb, answer |-> answer]
    /\ res = <<>>
    /\ text = NoText /\ out1 = NoText /\ out2 = NoText /\ category = ""
    /\ fvec = NoDict /\ triggered = <<>>

AnalyzeOnce ==
    /\ pc = "in"
    /\ res' = analyze_session(NewDetector(GoodFiles),
                              Session("iso", Keystrokes(arg.n, 200, arg.nb, 0, "iso"), <<>>),
                              arg.answer.level, arg.answer.confidence, 0, 0)
    /\ pc' = "done"
    /\ UNCHANGED <<text, out1, out2, category, fvec, triggered, arg>>
    /\ UNCHANGED serverVars

SpecAnalyze == InitAnalyze /\ [][AnalyzeOnce]_vars

(***************************************************************************)
(* Properties                                                              *)
(***************************************************************************)
\* the step handles a request of the given type
Handles(type) == nreq' = nreq + 1 /\ last'.type = type

Baseline(d) == d[1].feature_extractor.baseline
LastIntervention(d) == d[1].last_intervention

\* C1: on one detector, under a non-decreasing clock, any two approvals
\* (should_intervene = true) are at least intervention_cooldown seconds apart.
C1_ApprovalsCooldownApart ==
    \A i, j \in 1..Len(approvals) :
        i < j => approvals[j] - approvals[i] >= 300

\* a detector has approved twice
C1_Witness == Len(approvals) >= 2

\* C2: an analyze call returns should_intervene = true exactly when no
\* intervention was approved before or the cooldown has elapsed, the level is
\* High or Extreme and the confidence exceeds 0.7; a call that returns true
\* stamps last_intervention with the current time; a fresh detector is Ready.
C2_DecisionRule ==
    [][(Handles("analyze") /\ last'.status = "ok") =>
          LET p == last'.prediction[1]
              ready == \/ LastIntervention(detector) = <<>>
                       \/ now - LastIntervention(detector)[1] >= 300
          IN  /\ p.should_intervene <=>
                    (ready /\ p.level \in {"High", "Extreme"} /\ p.confidence > 700)
              /\ p.should_intervene => LastIntervention(detector') = <<now'>>
              /\ (last.type = "initialize" /\ last.status = "ok") =>
                    LastIntervention(detector) = <<>>]_vars

\* Extreme at confidence 0.9 is refused 10 seconds after an approval
C2_Witness ==
    /\ last.type = "analyze" /\ last.status = "ok"
    /\ last.prediction[1].level = "Extreme"
    /\ last.prediction[1].confidence = 900
    /\ ~last.prediction[1].should_intervene
    /\ approvals = <<now - 10>>

\* C3: an analyze request that ends in an error leaves Baseline and
\* last_intervention exactly as they were before the request.
C3_FailedAnalyzeChangesNothing ==
    [][(Handles("analyze") /\ last'.status = "error" /\ detector # <<>>) =>
          /\ Baseline(detector') = Baseline(detector)
          /\ LastIntervention(detector') = LastIntervention(detector)]_vars

C5_RefusesAfterFailedInitialize ==
    [][((Handles("analyze") \/ Handles("get_hint")) /\ last_init = "error") =>
          last'.status = "error"]_vars

\* the files of a model directory are all there and fit together
FilesCompatible(files) ==
    /\ files.model = "ok"
    /\ files.encoder = "ok"
    /\ files.scaler = "ok"
    /\ files.n_names \in {0, files.n_features}

\* C6: loading fails closed: no detector is ever installed over a missing or
\* incompatible artifact, and an initialize that answers ok has loaded a
\* compatible model.
C6_LoadingFailsClosed ==
    detector # <<>> => FilesCompatible(detector[1].model_loader)

\* some timestamp of the snapshot is no ISO-8601 string
Malformed(session_data) ==
    \/ session_data.session_start \in {"bad", "num"}
    \/ session_data.last_activity \in {"bad", "num"}
    \/ \E i \in 1..Len(session_data.keystrokes) :
          session_data.keystrokes[i].timestamp.k # "iso"
    \/ \E i \in 1..Len(session_data.compiles) :
          session_data.compiles[i].timestamp.k # "iso"

\* C7: an analyze request whose session holds a malformed timestamp is
\* answered with an error and changes nothing of the detector (Baseline,
\* last_intervention, rolling windows).
C7_MalformedTimestampChangesNothing ==
    [][(Handles("analyze") /\ detector # <<>>
            /\ Malformed(SessionData(last'.session))) =>
          /\ last'.status = "error"
          /\ detector' = detector]_vars

\* the thresholds that fire on the feature dict fvec
Firing ==
    {k \in DOMAIN fvec :
        \/ k = "RED_METRIC" /\ fvec[k] > 2500
        \/ k = "TYPING_SPEED" /\ fvec[k] < 650
        \/ k = "BACKSPACE_RATE" /\ fvec[k] > 300
        \/ k = "KEYSTROKE_RATE" /\ fvec[k] > 500
        \/ k = "COMPILE_ERROR" /\ fvec[k] > 500
        \/ k = "FOCUS_SWITCHES" /\ fvec[k] > 5000}

\* C8: get_triggered_features returns a non-empty list, which is
\* ["Normal Pattern"] exactly when no threshold fires; "Normal Pattern" never
\* stands beside another reason.
C8_TriggeredNeverEmpty ==
    pc = "done" =>
        /\ triggered # <<>>
        /\ (triggered = <<"Normal Pattern">>) <=> (Firing = {})
        /\ (\E i \in 1..Len(triggered) : triggered[i] = "Normal Pattern")
              => Len(triggered) = 1

\* every feature sits exactly on its threshold and none fires
C8_Witness ==
    /\ pc = "done"
    /\ DOMAIN fvec = RuleFeatures
    /\ \A k \in RuleFeatures : fvec[k] = RuleThreshold(k)
    /\ triggered = <<"Normal Pattern">>

\* the categories in the order the specification declares them
DeclaredOrder ==
    <<"syntax_error", "missing_semicolon", "undefined_reference", "missing_header",
      "segmentation_fault", "null_pointer", "array_bounds", "uninitialized",
      "memory_leak", "buffer_overflow", "type_mismatch", "no_matching_function",
      "ambiguous", "redefinition", "undeclared", "incomplete_type">>

\* the pattern of a category
PatternOf(name) ==
    error_patterns[CHOOSE k \in 1..Len(error_patterns) : error_patterns[k].name = name]

\* the positions in DeclaredOrder of the categories whose pattern matches text
Matching ==
    {k \in 1..Len(DeclaredOrder) : PatternSearch(PatternOf(DeclaredOrder[k]), text)}

\* C9: classify returns the first category, in declared order, whose pattern
\* matches the text, and unknown_error exactly when none matches.
C9_FirstMatchWins ==
    pc = "done" =>
        IF Matching = {} THEN category = "unknown_error"
        ELSE /\ category = DeclaredOrder[CHOOSE k \in Matching : \A m \in Matching : k <= m]
             /\ category # "unknown_error"

\* a text two patterns match is given the earlier category
C9_Witness ==
    /\ pc = "done"
    /\ Cardinality(Matching) >= 2
    /\ category = "syntax_error"
    /\ 2 \in Matching

\* C10: normalize(normalize(x)) = normalize(x) for every text x.
C10_NormalizeIdempotent == pc = "done" => out2 = out1

\* C11: for every list of compile events red_metric lies in [0, 10] and
\* repeated_error_ratio equals red_metric / 10 exactly.
C11_RedMetricRange ==
    pc = "done" =>
        LET red == res.exact.red_metric
            ratio == res.exact.repeated_error_ratio
        IN  /\ red.den > 0 /\ ratio.den > 0
            /\ 0 <= red.num /\ red.num <= 10 * red.den
            /\ 10 * ratio.num * red.den = red.num * ratio.den
            /\ res.features.red_metric \in 0..10000
            /\ res.features.red_metric = (red.num * 1000) \div red.den
            /\ res.features.repeated_error_ratio = (ratio.num * 1000) \div ratio.den

\* three failures in a row with the same normalized message: red_metric 20/3
C11_Witness ==
    /\ pc = "done"
    /\ Len(arg) = 3
    /\ res.exact.red_metric = [num |-> 20, den |-> 3]
    /\ res.features.red_metric = 6666
    /\ res.features.repeated_error_ratio = 666

\* C12 as stated: for any dict d whose keys are among the 8 canonical names,
\* feature_vector_to_dict(dict_to_feature_vector(d)) = d.
C12_RoundTripIdentity == pc = "done" => res = arg

\* C12 as amended: the round trip returns a dict over all 8 canonical names
\* that agrees with d on the keys of d and holds 0 for every name d lacks;
\* it is d itself when d has exactly the 8 canonical names.
C12_RoundTripFillsMissing ==
    pc = "done" =>
        /\ DOMAIN res = CanonicalNames
        /\ \A name \in CanonicalNames :
              res[name] = IF name \in DOMAIN arg THEN arg[name] ELSE 0
        /\ (DOMAIN arg = CanonicalNames) => res = arg

\* a dict with all 8 names and two different values comes back unchanged
C12_Witness ==
    /\ pc = "done"
    /\ DOMAIN arg = CanonicalNames
    /\ arg["TYPING_SPEED"] = 1500 /\ arg["UNDO_REDO_ATTEMPT"] = 0
    /\ res = arg

\* C13: a shutdown request is answered with status ok and stops the service
\* loop: once it is handled no further request is read or handled, neither
\* on the current connection nor on a new one (no client is accepted).
C13_ShutdownStops ==
    /\ [](last.type = "shutdown" => (last.status = "ok" /\ ~running))
    /\ [][last.type = "shutdown" =>
            /\ nreq' = nreq
            /\ last' = last
            /\ ~running'
            /\ conn' = "connected" => conn = "connected"]_vars

\* the loops have ended after a shutdown request that followed another request
C13_Witness ==
    /\ last.type = "shutdown"
    /\ conn = "stopped"
    /\ nreq = 2

\* C14: while no initialize request has succeeded there is no detector, and
\* every analyze and get_hint request is answered with status error and
\* changes no state; analyze answers ok, with a prediction, only when a
\* detector is initialized.
C14_UninitializedRefuses ==
    /\ [](last_init = "none" => detector = <<>>)
    /\ [][detector = <<>> =>
            /\ (detector' # <<>>) => (Handles("initialize") /\ last'.status = "ok")
            /\ (Handles("analyze") \/ Handles("get_hint")) =>
                  /\ last'.status = "error"
                  /\ last'.prediction = <<>>
                  /\ UNCHANGED <<detector, running, conn, approvals, last_init>>]_vars
    /\ []((last.type = "analyze" /\ last.status = "ok") =>
            (detector # <<>> /\ last.prediction # <<>>))

\* an analyze request is refused after the only initialize request failed
C14_Witness ==
    /\ last.type = "analyze"
    /\ last.status = "error"
    /\ last_init = "error"
    /\ detector = <<>>

\* C15: an analyze call that returns has run the baseline update exactly once
\* and after feature extraction: TYPING_SPEED is normalized by the baseline
\* typing_speed as the call found it (40.0 on a fresh detector), and the
\* update then smooths that feature into the baseline; no analyze call runs
\* the update more than once.
C15_UpdateAfterExtraction ==
    [][(Handles("analyze") /\ detector # <<>>) =>
          LET pre == Baseline(detector)
              post == Baseline(detector')
          IN  /\ post.samples \in {pre.samples, pre.samples + 1}
              /\ (pre.samples = 0) => (pre.typing_speed = 40000)
              /\ (last'.status = "ok") =>
                    LET f == last'.prediction[1].features
                        ks == ParseSession(SessionData(last'.session)).keystrokes
                    IN  /\ f.TYPING_SPEED =
                              extract_typing_features(ks, pre).typing_speed
                        /\ post.samples = pre.samples + 1
                        /\ post.typing_speed =
                              (9 * pre.typing_speed + 40 * f.TYPING_SPEED) \div 10]_vars

\* the second call on the steady session: 65.45 wpm over the baseline 42.544
\* the first call left, which this call's update then moves to 44.441
C15_Witness ==
    /\ last.type = "analyze" /\ last.status = "ok"
    /\ last.session = "steady"
    /\ Baseline(detector).samples = 2
    /\ last.prediction[1].features.TYPING_SPEED = 1538
    /\ Baseline(detector).typing_speed = 44441

\* C16: an analyze call whose should_intervene is false leaves
\* last_intervention as it was, whatever the reason of the refusal (cooldown,
\* level, confidence); a refusal during the cooldown does not extend it.
C16_RefusalHasNoEffect ==
    [][(Handles("analyze") /\ last'.status = "ok"
            /\ ~last'.prediction[1].should_intervene) =>
          /\ LastIntervention(detector') = LastIntervention(detector)
          /\ approvals' = approvals]_vars

\* High at confidence 0.9 is refused 10 seconds after an approval, and
\* last_intervention is still the instant of that approval
C16_Witness ==
    /\ last.type = "analyze" /\ last.status = "ok"
    /\ last.prediction[1].level = "High"
    /\ last.prediction[1].confidence = 900
    /\ ~last.prediction[1].should_intervene
    /\ LastIntervention(detector) = <<now - 10>>

\* C17: after an approval at t0, a call with level High or Extreme and
\* confidence above 0.7 at time t is approved exactly when t - t0 is strictly
\* greater than the cooldown: at exactly the cooldown it is still refused.
C17_CooldownStrict ==
    [][(Handles("analyze") /\ last'.status = "ok"
            /\ detector # <<>> /\ LastIntervention(detector) # <<>>
            /\ last'.prediction[1].level \in {"High", "Extreme"}
            /\ last'.prediction[1].confidence > 700) =>
          (last'.prediction[1].should_intervene <=>
              now - LastIntervention(detector)[1] > 300)]_vars

\* C18: the Baseline of a detector changes only where update_baseline runs:
\* an analyze call that reaches the update adds exactly 1 to samples and
\* leaves the Baseline update_baseline computes from the extracted features;
\* every other step (an analyze call that fails before the update, get_hint,
\* any other request) leaves every Baseline field as it was, so samples
\* never decreases and counts the updates since the detector was created.
C18_OnlyUpdateBaselineMutates ==
    /\ []((last.type = "initialize" /\ last.status = "ok") =>
            Baseline(detector).samples = 0)
    /\ [][(detector # <<>> /\ ~(Handles("initialize") /\ last'.status = "ok")) =>
            /\ detector' # <<>>
            /\ Baseline(detector').samples >= Baseline(detector).samples
            /\ IF Handles("analyze") /\ last'.outcome \in {"ok", "predict_error"}
               THEN /\ Baseline(detector').samples = Baseline(detector).samples + 1
                    /\ (last'.outcome = "ok") =>
                          Baseline(detector') =
                              update_baseline(Baseline(detector),
                                              last'.prediction[1].features)
               ELSE Baseline(detector') = Baseline(detector)]_vars

\* a get_hint request after one analyzed session: samples is still 1
C18_Witness ==
    /\ last.type = "get_hint" /\ last.status = "ok"
    /\ nreq = 3
    /\ Baseline(detector).samples = 1

\* C19: after any sequence of extract_all_features calls rolling_keystrokes
\* holds at most 100 and rolling_compiles at most 10 entries, and each is the
\* tail of all events supplied so far, in arrival order (oldest evicted
\* first).
C19_RollingWindowsBoundedFifo ==
    LET nk == Len(res.keystrokes)
        nc == Len(res.compiles)
    IN  /\ Len(arg.rolling_keystrokes) = IF nk < 100 THEN nk ELSE 100
        /\ Len(arg.rolling_compiles) = IF nc < 10 THEN nc ELSE 10
        /\ \A i \in 1..Len(arg.rolling_keystrokes) :
              arg.rolling_keystrokes[i] =
                  res.keystrokes[nk - Len(arg.rolling_keystrokes) + i]
        /\ \A i \in 1..Len(arg.rolling_compiles) :
              arg.rolling_compiles[i] =
                  res.compiles[nc - Len(arg.rolling_compiles) + i]

\* two snapshots of 60 keystrokes and of 4 and 12 compiles: the first 20
\* keystrokes and the first 6 compiles have been evicted
C19_Witness ==
    /\ res.calls = 2
    /\ Len(res.keystrokes) = 120 /\ Len(res.compiles) = 16
    /\ Len(arg.rolling_keystrokes) = 100 /\ Len(arg.rolling_compiles) = 10
    /\ arg.rolling_keystrokes[1] = res.keystrokes[21]
    /\ arg.rolling_compiles[1] = res.compiles[7]
    /\ res.snapshot[1].nc = 12

\* C20: the features extract_all_features returns for a snapshot are those an
\* extractor with the same Baseline and empty rolling windows returns for
\* it, whatever the rolling windows hold, and they are the 8 canonical ones.
C20_WindowsDoNotInfluenceFeatures ==
    res.calls > 0 =>
        LET session_data ==
                Snapshot(res.snapshot[1].nk, res.snapshot[1].nc, res.snapshot[1].call)
            fresh == [baseline |-> arg.baseline, rolling_keystrokes |-> <<>>,
                      rolling_compiles |-> <<>>]
        IN  /\ res.features[1] = Features(fresh, session_data)
            /\ DOMAIN res.features[1] = CanonicalNames

\* a third call with a snapshot of 3 keystrokes on an extractor whose window
\* is full of other keystrokes returns the default typing speed
C20_Witness ==
    /\ res.calls = 3
    /\ res.snapshot[1].nk = 3
    /\ Len(arg.rolling_keystrokes) = 100
    /\ res.features[1].TYPING_SPEED = 1000

\* the positions of arg that contribute an error string: failed compiles
\* that carry a message
Contributing == {i \in 1..Len(arg) : ~arg[i].success /\ arg[i].error_message # <<>>}

\* the pairs of neighbours in the list of error strings whose normalized
\* strings are equal
RepeatedPairs ==
    {p \in Contributing \X Contributing :
        /\ p[1] < p[2]
        /\ ~\E k \in Contributing : p[1] < k /\ k < p[2]
        /\ normalize_error_message(arg[p[1]].error_message[1])
              = normalize_error_message(arg[p[2]].error_message[1])}

\* C21: red_metric is repeats / (list length) * 10 over the normalized error
\* strings of the failed compiles in their original order, successful
\* compiles skipped, and 0 when that list has fewer than 2 entries.
C21_RedMetricDefinition ==
    pc = "done" =>
        LET n == Cardinality(Contributing)
            repeats == Cardinality(RepeatedPairs)
            red == res.exact.red_metric
        IN  /\ red.den > 0
            /\ IF n < 2 THEN red.num = 0
               ELSE red.num * n = repeats * 10 * red.den
            /\ res.features.red_metric =
                  IF n < 2 THEN 0 ELSE (repeats * 10000) \div n

\* [fail(e), fail(e), success] gives red_metric 5.0
C21_Witness ==
    /\ pc = "done"
    /\ arg = <<Compile("dt", 0, FALSE, <<Msg_line5>>),
               Compile("dt", 0, FALSE, <<Msg_line5>>),
               Compile("dt", 0, TRUE, <<>>)>>
    /\ res.features.red_metric = 5000

\* C22: in every analyze result UNDO_REDO_ATTEMPT is 1.0 exactly when
\* BACKSPACE_RATE > 0.4 (for ten keystrokes or more: when more than four in ten
\* are backspaces) and 0.0 otherwise, and whenever it is 1.0 the
\* triggered_features list holds "Excessive Corrections" and is not
\* ["Normal Pattern"].
C22_UndoRedoFollowsBackspaceRate ==
    pc = "done" /\ res.outcome = "ok" =>
        LET features == res.prediction[1].features
            reasons == res.prediction[1].triggered_features
            undo == features.UNDO_REDO_ATTEMPT
        IN  /\ undo \in {0, 1000}
            /\ undo = 1000 <=> features.BACKSPACE_RATE > 400
            /\ undo = 1000 <=> (arg.n >= 10 /\ 10 * arg.nb > 4 * arg.n)
            /\ undo = 1000 =>
                  /\ \E i \in 1..Len(reasons) : reasons[i] = "Excessive Corrections"
                  /\ reasons # <<"Normal Pattern">>

\* five backspaces among twelve keystrokes: the flag is set and the reason listed
C22_Witness ==
    /\ pc = "done" /\ res.outcome = "ok"
    /\ arg.n = 12 /\ arg.nb = 5
    /\ res.prediction[1].features.UNDO_REDO_ATTEMPT = 1000
    /\ \E i \in 1..Len(res.prediction[1].triggered_features) :
          res.prediction[1].triggered_features[i] = "Excessive Corrections"

\* C23: a failing request does not stop the service.  A request answered with
\* an error (invalid JSON, a handler that raises, a refusal) leaves the
\* connection open and the loop running, keeps the detector installed with
\* its last_intervention (and, unless analyze_session itself ran, the whole
\* detector), and the loop is then ready to read the next request.  The
\* per-connection loop is left only by a pipe error (back to waiting for a
\* client), by an interrupt, or once a shutdown request has cleared `running`.
C23_FailingRequestKeepsServing ==
    /\ [][(nreq' = nreq + 1 /\ last'.status = "error") =>
            /\ conn = "connected" /\ conn' = "connected"
            /\ running'
            /\ detector = <<>> <=> detector' = <<>>
            /\ detector # <<>> => LastIntervention(detector') = LastIntervention(detector)
            /\ (last'.type # "analyze" \/ last'.outcome = "parse_error") =>
                  detector' = detector
            /\ nreq' < MaxRequests => CanRead']_vars
    /\ [][(conn = "connected" /\ conn' # "connected") =>
            /\ nreq' = nreq /\ last' = last /\ detector' = detector
            /\ \/ running /\ running' /\ conn' = "waiting"
               \/ running /\ ~running' /\ conn' = "stopped"
               \/ ~running /\ last.type = "shutdown" /\ conn' = "stopped"]_vars
    /\ [][(running /\ ~running') => (Handles("shutdown") \/ conn' = "stopped")]_vars

\* on one detector an analyze request raised after its events had entered the
\* rolling windows, and the next analyze request was answered with a prediction
C23_Witness ==
    /\ conn = "connected" /\ running
    /\ nreq = 3
    /\ last.type = "analyze" /\ last.status = "ok"
    /\ Len(detector[1].feature_extractor.rolling_keystrokes) = 24
    /\ Baseline(detector).samples = 1

=============================================================================
